---- MODULE Spec2Model ----
(***************************************************************************)
(* Model of the receiver (src/server.py): the /process request handler,    *)
(* the display route index(), the generation backend adapter call_llm and  *)
(* the shared record last_result guarded by lock.                          *)
(*                                                                         *)
(* Python values are modelled as follows.  Strings are TLA+ strings, built *)
(* with \o and cut with SubSeq, so a template, a slice or a containment is *)
(* computed and not assumed.  None is the empty tuple, and a value that    *)
(* may be None is wrapped: Some(v) = <<v>>.  A payload is a record of the  *)
(* four keys the handler reads, each absent (<<>>) or present (<<v>>).     *)
(* A dict such as meta is a tuple of <<key, value>> pairs.                 *)
(***************************************************************************)
EXTENDS Integers, Sequences, FiniteSets, TLC

\* ------------------------------------------------------------------ bounds
MaxRequests == 2

\* the server threads: each serves one request at a time, and the next one
\* after it has answered
Workers == {1, 2}
Display == 0
Free == -1

\* ------------------------------------------------------- python primitives
None == <<>>
Some(v) == <<v>>

Min(a, b) == IF a < b THEN a ELSE b

\* s[:n]
Slice(s, n) == SubSeq(s, 1, Min(n, Len(s)))

\* t in s
Contains(s, t) ==
    \E i \in 0..(Len(s) - Len(t)) : SubSeq(s, i + 1, i + Len(t)) = t

\* s.startswith(t)
StartsWith(s, t) == Len(t) <= Len(s) /\ SubSeq(s, 1, Len(t)) = t

\* len(s.strip()) = 0
IsBlank(s) == \A i \in 1..Len(s) : SubSeq(s, i, i) \in {" ", "\t", "\n"}

RECURSIVE DictItems(_)
DictItems(d) ==
    IF Len(d) = 0 THEN ""
    ELSE "'" \o d[1][1] \o "': '" \o d[1][2] \o "'"
         \o (IF Len(d) > 1 THEN ", " ELSE "") \o DictItems(Tail(d))

\* str(v) as an f-string formats a meta value: None or a dict of strings
PyStr(v) == IF v = None THEN "None" ELSE "{" \o DictItems(v) \o "}"

\* ----------------------------------------------------------------- payload
Keys == {"type", "text", "image_b64", "meta"}

Payload(t, x, i, m) == [type |-> t, text |-> x, image_b64 |-> i, meta |-> m]

\* 'k' in payload
Has(p, k) == p[k] # <<>>

\* payload.get(k, default)
Get(p, k, default) == IF Has(p, k) THEN p[k][1] ELSE default

\* bool(payload): an empty JSON object (or null) is falsy
Truthy(p) == \E k \in Keys : Has(p, k)

ClipMeta == << <<"source", "clipboard">> >>
ShotMeta == << <<"source", "screenshot">> >>

\* base64 strings a client may submit: one that decodes to an image and one
\* that does not
B64Text == "iVBORw0KGgoAAAANSUhEUgAAAAUA"
B64Bad == "bm90IGFuIGltYWdl"

PayloadMenu ==
    { Payload(<<>>, <<>>, <<>>, <<>>),
      Payload(<<>>, <<>>, <<>>, Some(ClipMeta)),
      Payload(Some("bogus"), <<>>, <<>>, Some(ClipMeta)),
      Payload(Some("text"), <<>>, <<>>, Some(ClipMeta)),
      Payload(Some("text"), Some(""), <<>>, <<>>),
      Payload(Some("text"), Some("  "), <<>>, Some(ClipMeta)),
      Payload(Some("text"), Some("buy milk"), <<>>, Some(ClipMeta)),
      Payload(Some("image"), <<>>, <<>>, Some(ShotMeta)),
      Payload(Some("image"), <<>>, Some(""), Some(ShotMeta)),
      Payload(Some("image"), <<>>, Some(B64Bad), Some(ShotMeta)),
      Payload(Some("image"), <<>>, Some(B64Text), Some(ShotMeta)) }

NoPayload == Payload(<<>>, <<>>, <<>>, <<>>)

\* ------------------------------------------------------------------- state
VARIABLES
    HAVE_OCR,        \* server.py:28-33, fixed at import
    USE_OPENAI,      \* server.py:39, fixed at import
    OPENAI_API_KEY,  \* the environment variable call_llm reads
    last_result,     \* server.py:44
    lock,            \* server.py:45: Free, or the thread that holds it
    now,             \* the clock time.time() reads
    pc,              \* each worker's position in process()
    payload,         \* locals of process(), per worker
    extracted_text,
    raw,
    prompt,
    llm_response,
    resp,            \* the HTTP response a worker returned last
    dpc,             \* the display thread's position in index()
    data,            \* index()'s local copy
    rid,             \* history: arrival number of the worker's request
    nreq,            \* history: requests received so far
    llm_calls,       \* history: call_llm invocations of the worker's request
    nrec,            \* history: completed record steps of the worker's request
    recno,           \* history: the ordinal of the request's record step
    outcome,         \* history: what the OpenAI client did in the request's call
    sent,            \* history: the input the request's call handed to the backend
    abandoned,       \* history: the request's client has timed out and gone
    last_acq,        \* history: the request that entered the with block last
    nrecorded,       \* history: completed record steps of all requests
    by,              \* history: which request wrote each field of last_result
    data_hist        \* history: by and nrecorded as they were when data was copied

config == <<HAVE_OCR, USE_OPENAI, OPENAI_API_KEY>>
locals == <<payload, extracted_text, raw, prompt, llm_response>>
shared == <<last_result, lock, now, by, nrecorded>>
display == <<dpc, data, data_hist>>
hist == <<llm_calls, nrec, recno, outcome, sent, abandoned, last_acq>>
server == <<config, shared, pc, locals, resp, display, rid, nreq, hist>>

\* the sender (client.py): keyboard listener and capture threads
VARIABLES
    current_keys,    \* client.py:28
    nevents,         \* history: keyboard events delivered so far
    last_event,      \* history: the last keyboard event, <<kind, key>>
    started,         \* history: capture threads started so far
    trigger,         \* history: the event that started each capture thread
    cpc,             \* position of each capture thread
    text,            \* handle_capture_and_send's local text
    shots,           \* history: ImageGrab.grab() calls of each capture
    posted,          \* history: payload types each capture has POSTed
    logged           \* history: what each capture has printed

client == <<current_keys, nevents, last_event, started, trigger, cpc, text, shots,
            posted, logged>>

vars == <<server, client>>

MaxEvents == 5

\* a capture thread is started by a key press, so there are never more threads
\* than events
Captures == 1..MaxEvents

ClientInit ==
    /\ current_keys = {}
    /\ nevents = 0
    /\ last_event = None
    /\ started = 0
    /\ trigger = [t \in Captures |-> 0]
    /\ cpc = [t \in Captures |-> "unborn"]
    /\ text = [t \in Captures |-> None]
    /\ shots = [t \in Captures |-> 0]
    /\ posted = [t \in Captures |-> <<>>]
    /\ logged = [t \in Captures |-> <<>>]

Fields == {"text", "raw", "meta", "timestamp"}

\* ------------------------------------------------------------- extraction
\* what Image.open makes of the decoded bytes, and what tesseract reads in it
Decodes(b64) == b64 = B64Text

ImageOf(b64) ==
    [size |-> "(5, 1)", mode |-> "RGB", nbytes |-> "21", text |-> "buy milk\n"]

ocr_from_image(img) == IF ~HAVE_OCR THEN "" ELSE img.text

\* outcomes of the part of process() before the prompt is built
Fail(msg) == [error |-> msg, extracted_text |-> "", raw |-> ""]
Extracted(x, r) == [error |-> "", extracted_text |-> x, raw |-> r]

InvalidPayload(p) == ~Truthy(p) \/ ~Has(p, "type")

UnknownTypeSkipped(p) == Extracted("", "")
UnknownType(p) == Fail("unknown type")

BadImageSwallowed(e) == Extracted("", "")
BadImage(e) == Fail("bad image: " \o e)

ExtractImage(p, ocr_ok) ==
    LET b64 == Get(p, "image_b64", "") IN
    IF b64 = "" THEN Fail("no image data")
    ELSE IF ~Decodes(b64) THEN BadImage("cannot identify image file")
    ELSE LET img == ImageOf(b64) IN
         IF HAVE_OCR
         THEN IF ocr_ok
              THEN Extracted(ocr_from_image(img),
                             "[image " \o img.size \o " mode=" \o img.mode \o "]")
              ELSE BadImage("tesseract is not installed")
         ELSE Extracted("Analyze this screenshot (base64): " \o b64,
                        "[image " \o img.nbytes \o " bytes]")

ValidateAndExtract(p, ocr_ok) ==
    IF InvalidPayload(p) THEN Fail("invalid payload")
    ELSE LET content_type == p.type[1] IN
         IF content_type = "text"
         THEN Extracted(Get(p, "text", ""), Get(p, "text", ""))
         ELSE IF content_type = "image" THEN ExtractImage(p, ocr_ok)
         ELSE UnknownType(p)

\* ------------------------------------------------------------------ prompt
FallbackHead == "No text found. Raw payload meta: "
FallbackTail == "\nYou can summarize the raw content or explain what to do next."
InstructionHead == "Process the following input and produce a concise, actionable answer (summary, steps, code, or other); include source if relevant.\n\nInput:\n"

BuildPrompt(x, p) ==
    IF x = ""
    THEN FallbackHead \o PyStr(Get(p, "meta", None)) \o FallbackTail
    ELSE InstructionHead \o x

\* ----------------------------------------------------------------- backend
EchoLen == 2000
KeyNotSet == "OpenAI API key not set (set OPENAI_API_KEY)"
CallFailed == "LLM call failed: "
EchoHead == "[LOCAL LLM MODE] Echoing prompt (implement your local LLM call):\n\n"
OutputText == "1. Buy milk."

\* what the OpenAI client does in one call: answers, or raises; the local
\* backend uses no client
Outcomes == IF USE_OPENAI THEN {"answers", "raises"} ELSE {"unused"}

Returned(s) == [raised |-> FALSE, value |-> s]
Raised(e) == [raised |-> TRUE, value |-> e]

Propagated(e) == Raised(e)
Caught(e) == Returned(CallFailed \o e)

call_llm(q, o) ==
    IF USE_OPENAI
    THEN IF OPENAI_API_KEY = ""
         THEN IF o = "raises"
              THEN Caught("The api_key client option must be set")
              ELSE Returned(KeyNotSet)
         ELSE IF o = "raises"
              THEN Caught("Connection error.")
              ELSE Returned(OutputText)
    ELSE Returned(EchoHead \o Slice(q, EchoLen))

\* what call_llm hands to the backend: the hosted client gets the whole prompt
\* as input (once the key check has passed), the local echo uses prompt[:2000]
BackendInput(q) ==
    IF USE_OPENAI
    THEN IF OPENAI_API_KEY = "" THEN None ELSE Some(q)
    ELSE Some(Slice(q, EchoLen))

\* -------------------------------------------------------------------- Init
NoResp == [status |-> 0, body |-> [pending |-> TRUE]]
ErrorResp(msg) == [status |-> 400, body |-> [error |-> msg]]
ServerError == [status |-> 500, body |-> [error |-> "Internal Server Error"]]

PreviewLen == 400

\* jsonify({'status': 'ok', 'result_preview': llm_response[:400]})
\* a response that carries the whole result
OkBodyWhole(r) == [status |-> "ok", result_preview |-> r]

OkBody(r) == [status |-> "ok", result_preview |-> Slice(r, PreviewLen)]
OkResp(r) == [status |-> 200, body |-> OkBody(r)]

Init ==
    /\ HAVE_OCR \in BOOLEAN
    /\ USE_OPENAI \in BOOLEAN
    /\ OPENAI_API_KEY \in {"", "sk-test"}
    /\ USE_OPENAI \/ OPENAI_API_KEY = ""   \* the local backend never reads it
    /\ last_result = [text |-> "", raw |-> "", meta |-> None, timestamp |-> None]
    /\ lock = Free
    /\ now = 0
    /\ pc = [w \in Workers |-> "idle"]
    /\ payload = [w \in Workers |-> NoPayload]
    /\ extracted_text = [w \in Workers |-> ""]
    /\ raw = [w \in Workers |-> ""]
    /\ prompt = [w \in Workers |-> ""]
    /\ llm_response = [w \in Workers |-> ""]
    /\ resp = [w \in Workers |-> NoResp]
    /\ dpc = "idle"
    /\ data = None
    /\ rid = [w \in Workers |-> 0]
    /\ nreq = 0
    /\ llm_calls = [w \in Workers |-> 0]
    /\ nrec = [w \in Workers |-> 0]
    /\ recno = [w \in Workers |-> 0]
    /\ outcome = [w \in Workers |-> "none"]
    /\ sent = [w \in Workers |-> None]
    /\ abandoned = [w \in Workers |-> FALSE]
    /\ last_acq = 0
    /\ ClientInit
    /\ nrecorded = 0
    /\ by = [f \in Fields |-> 0]
    /\ data_hist = None

\* ---------------------------------------------------------------- process()
\* server.py:145: call_llm(prompt) is called before the with block is entered
EnterCallHoldingLock(w) == lock = Free /\ lock' = w
EnterCall(w) == UNCHANGED lock

\* a return statement of process(): the response is handed to Flask
Return(w, response) ==
    /\ resp' = [resp EXCEPT ![w] = response]
    /\ pc' = [pc EXCEPT ![w] = "reply"]

\* server.py:101-145: a request arrives; validation, extraction and prompt
\* building touch only locals; then the worker is inside call_llm
StartWith(w, menu) ==
    /\ pc[w] = "idle"
    /\ \A v \in Workers : v < w => pc[v] # "idle"   \* the first free thread serves
    /\ nreq < MaxRequests
    /\ \E p \in menu, ocr_ok \in BOOLEAN :
         LET r == ValidateAndExtract(p, ocr_ok) IN
         /\ payload' = [payload EXCEPT ![w] = p]
         /\ rid' = [rid EXCEPT ![w] = nreq + 1]
         /\ IF r.error # ""
            THEN /\ Return(w, ErrorResp(r.error))
                 /\ UNCHANGED <<extracted_text, raw, prompt, llm_calls, lock>>
            ELSE /\ extracted_text' = [extracted_text EXCEPT ![w] = r.extracted_text]
                 /\ raw' = [raw EXCEPT ![w] = r.raw]
                 /\ prompt' = [prompt EXCEPT ![w] = BuildPrompt(r.extracted_text, p)]
                 /\ resp' = [resp EXCEPT ![w] = NoResp]
                 /\ pc' = [pc EXCEPT ![w] = "in_llm"]
                 /\ llm_calls' = [llm_calls EXCEPT ![w] = @ + 1]
                 /\ EnterCall(w)
    /\ nreq' = nreq + 1
    /\ UNCHANGED <<config, client, last_result, now, by, nrecorded, display, llm_response,
                   nrec, recno, outcome, sent, abandoned, last_acq>>

Start(w) == StartWith(w, PayloadMenu)

\* server.py:145: call_llm returns (had it raised, Flask would answer 500)
LLMReturn(w) ==
    /\ pc[w] = "in_llm"
    /\ \E o \in Outcomes :
         LET r == call_llm(prompt[w], o) IN
         /\ outcome' = [outcome EXCEPT ![w] = o]
         /\ sent' = [sent EXCEPT ![w] =
                        IF o = "raises" /\ OPENAI_API_KEY = "" THEN None
                        ELSE BackendInput(prompt[w])]
         /\ IF r.raised
            THEN /\ Return(w, ServerError)
                 /\ UNCHANGED llm_response
            ELSE /\ llm_response' = [llm_response EXCEPT ![w] = r.value]
                 /\ pc' = [pc EXCEPT ![w] = "acquire"]
                 /\ UNCHANGED resp
    /\ UNCHANGED <<config, client, shared, display, payload, extracted_text, raw, prompt,
                   rid, nreq, llm_calls, nrec, recno, abandoned, last_acq>>

\* a record step that does not wait for the lock
AcquireUnguarded(w) ==
    /\ pc[w] = "acquire"
    /\ lock' = w
    /\ pc' = [pc EXCEPT ![w] = "w_text"]
    /\ last_acq' = rid[w]
    /\ UNCHANGED <<config, client, last_result, now, by, nrecorded, locals, resp,
                   display, rid, nreq, llm_calls, nrec, recno, outcome, sent,
                   abandoned>>

\* server.py:147: with lock (threading.Lock blocks until it is free)
Acquire(w) ==
    /\ pc[w] = "acquire"
    /\ lock = Free
    /\ lock' = w
    /\ pc' = [pc EXCEPT ![w] = "w_text"]
    /\ last_acq' = rid[w]
    /\ UNCHANGED <<config, client, last_result, now, by, nrecorded, locals, resp, display,
                   rid, nreq, llm_calls, nrec, recno, outcome, sent, abandoned>>

\* one of the assignments of server.py:148-151
WriteField(w, at, f, v, next) ==
    /\ pc[w] = at
    /\ last_result' = [last_result EXCEPT ![f] = v]
    /\ by' = [by EXCEPT ![f] = rid[w]]
    /\ pc' = [pc EXCEPT ![w] = next]

\* server.py:148
WriteText(w) ==
    /\ WriteField(w, "w_text", "text", llm_response[w], "w_raw")
    /\ UNCHANGED <<config, client, lock, now, nrecorded, locals, resp, display, rid, nreq,
                   hist>>

\* server.py:149
WriteRaw(w) ==
    /\ WriteField(w, "w_raw", "raw", raw[w], "w_meta")
    /\ UNCHANGED <<config, client, lock, now, nrecorded, locals, resp, display, rid, nreq,
                   hist>>

\* server.py:150
WriteMeta(w) ==
    /\ WriteField(w, "w_meta", "meta", Get(payload[w], "meta", None), "w_timestamp")
    /\ UNCHANGED <<config, client, lock, now, nrecorded, locals, resp, display, rid, nreq,
                   hist>>

\* server.py:151: time.time() reads the clock, which has advanced
WriteTimestamp(w) ==
    /\ WriteField(w, "w_timestamp", "timestamp", Some(now + 1), "release")
    /\ now' = now + 1
    /\ nrec' = [nrec EXCEPT ![w] = @ + 1]
    /\ recno' = [recno EXCEPT ![w] = nrecorded + 1]
    /\ nrecorded' = nrecorded + 1
    /\ UNCHANGED <<config, client, lock, locals, resp, display, rid, nreq, llm_calls, outcome,
                   sent, abandoned, last_acq>>

\* server.py:151-153: the with block ends and the response is returned
Respond(w) ==
    /\ pc[w] = "release"
    /\ lock' = Free
    /\ Return(w, OkResp(llm_response[w]))
    /\ UNCHANGED <<config, client, last_result, now, by, nrecorded, locals, display, rid,
                   nreq, hist>>

\* the response has been sent: the request and its locals are gone and the
\* thread is free for the next request
Finish(w) ==
    /\ pc[w] = "reply"
    /\ pc' = [pc EXCEPT ![w] = "idle"]
    /\ payload' = [payload EXCEPT ![w] = NoPayload]
    /\ extracted_text' = [extracted_text EXCEPT ![w] = ""]
    /\ raw' = [raw EXCEPT ![w] = ""]
    /\ prompt' = [prompt EXCEPT ![w] = ""]
    /\ llm_response' = [llm_response EXCEPT ![w] = ""]
    /\ resp' = [resp EXCEPT ![w] = NoResp]
    /\ rid' = [rid EXCEPT ![w] = 0]
    /\ llm_calls' = [llm_calls EXCEPT ![w] = 0]
    /\ nrec' = [nrec EXCEPT ![w] = 0]
    /\ recno' = [recno EXCEPT ![w] = 0]
    /\ outcome' = [outcome EXCEPT ![w] = "none"]
    /\ sent' = [sent EXCEPT ![w] = None]
    /\ abandoned' = [abandoned EXCEPT ![w] = FALSE]
    /\ UNCHANGED <<config, client, shared, display, nreq, last_acq>>

\* ------------------------------------------------------------------ index()
\* server.py:94: with lock
IndexAcquireUnguarded ==
    /\ dpc = "idle"
    /\ dpc' = "copy"
    /\ UNCHANGED <<config, client, shared, pc, locals, resp, data, data_hist, rid, nreq,
                   hist>>

IndexAcquire ==
    /\ dpc = "idle"
    /\ lock = Free
    /\ lock' = Display
    /\ dpc' = "copy"
    /\ UNCHANGED <<config, client, last_result, now, by, nrecorded, pc, locals, resp, data,
                   data_hist, rid, nreq, hist>>

\* a display route that renders inside the with block
IndexCopyHoldingLock ==
    /\ dpc = "copy"
    /\ data' = Some(last_result)
    /\ data_hist' = Some([by |-> by, n |-> nrecorded])
    /\ dpc' = "render"
    /\ UNCHANGED <<config, client, last_result, lock, now, by, nrecorded, pc, locals,
                   resp, rid, nreq, hist>>

\* server.py:95: data = dict(last_result), and the with block ends
IndexCopy ==
    /\ dpc = "copy"
    /\ data' = Some(last_result)
    /\ data_hist' = Some([by |-> by, n |-> nrecorded])
    /\ lock' = IF lock = Display THEN Free ELSE lock
    /\ dpc' = "render"
    /\ UNCHANGED <<config, client, last_result, now, by, nrecorded, pc, locals, resp, rid,
                   nreq, hist>>

\* server.py:96: render_template returns and the copy is dropped
IndexRender ==
    /\ dpc = "render"
    /\ data' = None
    /\ data_hist' = None
    /\ dpc' = "idle"
    /\ UNCHANGED <<config, client, shared, pc, locals, resp, rid, nreq, hist>>

\* -------------------------------------------------------------------- Spec
Next ==
    \/ \E w \in Workers : Start(w)
    \/ \E w \in Workers : LLMReturn(w)
    \/ \E w \in Workers : Acquire(w)
    \/ \E w \in Workers : WriteText(w)
    \/ \E w \in Workers : WriteRaw(w)
    \/ \E w \in Workers : WriteMeta(w)
    \/ \E w \in Workers : WriteTimestamp(w)
    \/ \E w \in Workers : Respond(w)
    \/ \E w \in Workers : Finish(w)
    \/ IndexAcquire
    \/ IndexCopy
    \/ IndexRender

Spec == Init /\ [][Next]_vars

\* ------------------------------------------------------------------ client.py
\* the keys the listener can report: the three of HOTKEY and an unrelated one
KeySet == {"ctrl_l", "alt_l", "l", "x"}

\* client.py:25
HOTKEY == {"ctrl_l", "alt_l", "l"}

\* client.py:73: threading.Thread(target=handle_capture_and_send).start()
StartCapture ==
    /\ started' = started + 1
    /\ cpc' = [cpc EXCEPT ![started + 1] = "paste"]
    /\ trigger' = [trigger EXCEPT ![started + 1] = nevents + 1]

\* a listener that fires on the key that completes the combination only
on_press_edge(key) ==
    /\ nevents < MaxEvents
    /\ current_keys' = current_keys \cup {key}
    /\ nevents' = nevents + 1
    /\ last_event' = <<"press", key>>
    /\ IF HOTKEY \subseteq current_keys' /\ key \notin current_keys
       THEN StartCapture
       ELSE UNCHANGED <<started, cpc, trigger>>
    /\ UNCHANGED <<server, text, shots, posted, logged>>

\* client.py:62-73: every branch adds the key; then the test of line 71
on_press(key) ==
    /\ nevents < MaxEvents
    /\ current_keys' = current_keys \cup {key}
    /\ nevents' = nevents + 1
    /\ last_event' = <<"press", key>>
    /\ IF \A k \in HOTKEY : k \in current_keys'
       THEN StartCapture
       ELSE UNCHANGED <<started, cpc, trigger>>
    /\ UNCHANGED <<server, text, shots, posted, logged>>

\* client.py:76-80: discard, a no-op for a key that is not in the set
on_release(key) ==
    /\ nevents < MaxEvents
    /\ current_keys' = current_keys \ {key}
    /\ nevents' = nevents + 1
    /\ last_event' = <<"release", key>>
    /\ UNCHANGED <<server, started, trigger, cpc, text, shots, posted, logged>>

\* what pyperclip.paste() can do: raise (None) or return a string
Clipboard == {None, Some(""), Some(" \n"), Some("hello")}

Log(t, line) == logged' = [logged EXCEPT ![t] = Append(@, line)]

\* a capture that sends the clipboard whenever it is not the empty string
PasteUnstripped(t) ==
    /\ cpc[t] = "paste"
    /\ \E c \in Clipboard :
         /\ text' = [text EXCEPT ![t] = c]
         /\ IF c = None
            THEN /\ Log(t, "Clipboard read failed")
                 /\ cpc' = [cpc EXCEPT ![t] = "grab"]
            ELSE /\ cpc' = [cpc EXCEPT ![t] =
                              IF c[1] # "" THEN "send_text" ELSE "grab"]
                 /\ UNCHANGED logged
    /\ UNCHANGED <<server, current_keys, nevents, last_event, started, trigger,
                   shots, posted>>

\* client.py:85-93: text = None; paste; non-blank text goes to send_text, an
\* exception of paste is printed and leaves text = None
Paste(t) ==
    /\ cpc[t] = "paste"
    /\ \E c \in Clipboard :
         /\ text' = [text EXCEPT ![t] = c]
         /\ IF c = None
            THEN /\ Log(t, "Clipboard read failed")
                 /\ cpc' = [cpc EXCEPT ![t] = "grab"]
            ELSE /\ cpc' = [cpc EXCEPT ![t] =
                              IF c[1] # "" /\ ~IsBlank(c[1]) THEN "send_text"
                              ELSE "grab"]
                 /\ UNCHANGED logged
    /\ UNCHANGED <<server, current_keys, nevents, last_event, started, trigger,
                   shots, posted>>

\* client.py:96-101 with send_image's lines 46-48: ImageGrab.grab() or the PNG
\* encoding may raise; the handler prints and the capture ends
Grab(t) ==
    /\ cpc[t] = "grab"
    /\ shots' = [shots EXCEPT ![t] = @ + 1]
    /\ \E r \in {"ok", "grab raises", "save raises"} :
         IF r = "ok"
         THEN /\ cpc' = [cpc EXCEPT ![t] = "send_image"]
              /\ UNCHANGED logged
         ELSE /\ Log(t, "Screenshot failed")
              /\ cpc' = [cpc EXCEPT ![t] = "done"]
    /\ UNCHANGED <<server, current_keys, nevents, last_event, started, trigger,
                   text, posted>>

\* what requests.post and raise_for_status can do
PostOutcomes == {"ok", "connection error", "timeout", "error status"}

\* one requests.post inside try/except: printed either way, then return
Post(t, at, type, good, bad) ==
    /\ cpc[t] = at
    /\ posted' = [posted EXCEPT ![t] = Append(@, type)]
    /\ \E r \in PostOutcomes : Log(t, IF r = "ok" THEN good ELSE bad)
    /\ cpc' = [cpc EXCEPT ![t] = "done"]

\* a sender that posts again after a failure
send_text_retrying(t) ==
    /\ cpc[t] = "send_text"
    /\ posted' = [posted EXCEPT ![t] = Append(@, "text")]
    /\ \E r \in PostOutcomes :
         /\ Log(t, IF r = "ok" THEN "Sent text" ELSE "Failed to send text")
         /\ cpc' = [cpc EXCEPT ![t] =
                      IF r = "ok" \/ Len(posted[t]) > 0 THEN "done" ELSE "send_text"]
    /\ UNCHANGED <<server, current_keys, nevents, last_event, started, trigger,
                   text, shots>>

\* client.py:37-42
send_text(t) ==
    /\ Post(t, "send_text", "text", "Sent text", "Failed to send text")
    /\ UNCHANGED <<server, current_keys, nevents, last_event, started, trigger,
                   text, shots>>

\* client.py:54-59
send_image(t) ==
    /\ Post(t, "send_image", "image", "Sent image", "Failed to send image")
    /\ UNCHANGED <<server, current_keys, nevents, last_event, started, trigger,
                   text, shots>>

NextClient ==
    \/ \E key \in KeySet : on_press(key)
    \/ \E key \in KeySet : on_release(key)
    \/ \E t \in Captures : Paste(t)
    \/ \E t \in Captures : Grab(t)
    \/ \E t \in Captures : send_text(t)
    \/ \E t \in Captures : send_image(t)

\* the sender runs on its own machine; the server's configuration is fixed
InitClient == Init /\ HAVE_OCR /\ ~USE_OPENAI

SpecClient == InitClient /\ [][NextClient]_vars

\* ------------------------------------------------- long inputs, impatient clients
X16 == "0123456789abcdef"
X128 == X16 \o X16 \o X16 \o X16 \o X16 \o X16 \o X16 \o X16
X1024 == X128 \o X128 \o X128 \o X128 \o X128 \o X128 \o X128 \o X128
LongText == X1024 \o X1024

LongMenu ==
    { Payload(Some("bogus"), <<>>, <<>>, Some(ClipMeta)),
      Payload(Some("text"), Some("buy milk"), <<>>, Some(ClipMeta)),
      Payload(Some("text"), Some(LongText), <<>>, Some(ClipMeta)) }

StartLong(w) == StartWith(w, LongMenu)

\* a cancelling server would drop the request when its client goes away
ClientTimeoutCancels(w) ==
    /\ pc[w] \in {"in_llm", "acquire"}
    /\ ~abandoned[w]
    /\ abandoned' = [abandoned EXCEPT ![w] = TRUE]
    /\ Return(w, ServerError)
    /\ UNCHANGED <<config, client, shared, locals, display, rid, nreq, llm_calls,
                   nrec, recno, outcome, sent, last_acq>>

\* client.py:38, 55: requests.post(..., timeout=...) gives up while the server
\* is still working; nothing reaches the server
ClientTimeout(w) ==
    /\ pc[w] \in {"in_llm", "acquire", "w_text", "w_raw", "w_meta", "w_timestamp",
                  "release"}
    /\ ~abandoned[w]
    /\ abandoned' = [abandoned EXCEPT ![w] = TRUE]
    /\ UNCHANGED <<config, client, shared, pc, locals, resp, display, rid, nreq, llm_calls,
                   nrec, recno, outcome, sent, last_acq>>

NextLong ==
    \/ \E w \in Workers : StartLong(w)
    \/ \E w \in Workers : ClientTimeout(w)
    \/ \E w \in Workers : LLMReturn(w)
    \/ \E w \in Workers : Acquire(w)
    \/ \E w \in Workers : WriteText(w)
    \/ \E w \in Workers : WriteRaw(w)
    \/ \E w \in Workers : WriteMeta(w)
    \/ \E w \in Workers : WriteTimestamp(w)
    \/ \E w \in Workers : Respond(w)
    \/ \E w \in Workers : Finish(w)
    \/ IndexAcquire
    \/ IndexCopy
    \/ IndexRender

SpecLong == Init /\ [][NextLong]_vars

\* the backend call returns, a thread that can run does run, and a thread
\* waiting for the lock gets it at one of the moments it is free
Fairness ==
    \A w \in Workers :
        /\ WF_vars(LLMReturn(w))
        /\ SF_vars(Acquire(w))
        /\ WF_vars(WriteText(w) \/ WriteRaw(w) \/ WriteMeta(w) \/ WriteTimestamp(w)
                      \/ Respond(w))
        /\ WF_vars(IndexCopy)

\* requests that differ in nothing the lock or the scheduling depends on are
\* left out: one rejected request and one that is recorded
FairMenu ==
    { Payload(Some("bogus"), <<>>, <<>>, Some(ClipMeta)),
      Payload(Some("text"), Some("buy milk"), <<>>, Some(ClipMeta)) }

StartFair(w) == StartWith(w, FairMenu)

NextFair ==
    \/ \E w \in Workers : StartFair(w)
    \/ \E w \in Workers : ClientTimeout(w)
    \/ \E w \in Workers : LLMReturn(w)
    \/ \E w \in Workers : Acquire(w)
    \/ \E w \in Workers : WriteText(w)
    \/ \E w \in Workers : WriteRaw(w)
    \/ \E w \in Workers : WriteMeta(w)
    \/ \E w \in Workers : WriteTimestamp(w)
    \/ \E w \in Workers : Respond(w)
    \/ \E w \in Workers : Finish(w)
    \/ IndexAcquire
    \/ IndexCopy
    \/ IndexRender

FairSpec == Init /\ [][NextFair]_vars /\ Fairness

\* ================================================================== claims
HasKey(r, k) == k \in DOMAIN r

\* the worker holds the lock and has written all four fields
Recorded(w) == pc[w] = "release"

\* the worker is past call_llm
AfterCall(w) ==
    pc[w] \in {"acquire", "w_text", "w_raw", "w_meta", "w_timestamp", "release"}

InFlight(w) == pc[w] = "in_llm" \/ AfterCall(w)

Writing(w) == pc[w] \in {"w_raw", "w_meta", "w_timestamp"}

\* no field of last_result was written by the worker's request, and the worker
\* does not hold the lock
Untouched(w) == lock # w /\ \A f \in Fields : by[f] # rid[w]

Rejected(w) ==
    /\ pc[w] = "reply"
    /\ resp[w].status = 400
    /\ HasKey(resp[w].body, "error")
    /\ llm_calls[w] = 0
    /\ nrec[w] = 0
    /\ Untouched(w)

\* C1: the k-th record step assigns id k to its entry, so that K recorded
\* requests hold exactly the ids 1..K, whatever the interleaving.
C1_IdsAreOneToK ==
    \A w \in Workers :
        Recorded(w) => HasKey(last_result, "id") /\ last_result.id = recno[w]

\* the entries a copy taken by index() shows, newest first
Snapshot(d) == IF d.timestamp = None THEN <<>> ELSE <<d>>

\* C2: the copy the display route takes holds one entry per request recorded
\* so far: no recorded entry is overwritten or removed by a later request.
C2_SnapshotHoldsEveryRecord ==
    dpc = "render" => Len(Snapshot(data[1])) = data_hist[1].n

\* C3: a payload that is empty, has no 'type' or has an unknown 'type' is
\* answered 400 with an 'error' message; call_llm is not called for it and it
\* writes nothing to last_result.
BadRequest(p) ==
    \/ ~Truthy(p)
    \/ ~Has(p, "type")
    \/ p.type[1] \notin {"text", "image"}

ImageFails(p) ==
    /\ Has(p, "type")
    /\ p.type[1] = "image"
    /\ Get(p, "image_b64", "") = "" \/ ~Decodes(Get(p, "image_b64", ""))

BackendFailed(w) ==
    USE_OPENAI /\ (OPENAI_API_KEY = "" \/ outcome[w] = "raises")

FailureString(x) == x = KeyNotSet \/ StartsWith(x, CallFailed)

C5_BackendFailureRecorded ==
    \A w \in Workers :
        /\ pc[w] = "reply" => resp[w].status # 500
        /\ AfterCall(w) /\ BackendFailed(w) => FailureString(llm_response[w])
        /\ Recorded(w) /\ BackendFailed(w) =>
               /\ last_result.text = llm_response[w]
               /\ by.text = rid[w]
               /\ nrec[w] = 1
        /\ pc[w] = "reply" /\ llm_calls[w] > 0 /\ BackendFailed(w) =>
               /\ resp[w].status = 200
               /\ resp[w].body.status = "ok"
               /\ FailureString(llm_response[w])
               /\ nrec[w] = 1

C5_Witness ==
    \E w \in Workers :
        /\ pc[w] = "reply"
        /\ OPENAI_API_KEY # ""
        /\ outcome[w] = "raises"
        /\ resp[w].status = 200
        /\ nrecorded = 2

\* C6: a worker that is inside call_llm does not hold the lock.
C6_NoLockInsideCall ==
    \A w \in Workers : pc[w] = "in_llm" => lock # w

C6_Witness ==
    \E w, v \in Workers :
        /\ pc[w] = "in_llm"
        /\ Writing(v)
        /\ lock = v

\* C7: all four fields of a copy taken by index() were written by one request,
\* or all are the initial ones.
C7_CopyNotTorn ==
    dpc = "render" =>
        \A f, g \in Fields : data_hist[1].by[f] = data_hist[1].by[g]

C7_Witness ==
    /\ dpc = "render"
    /\ data_hist[1].by["text"] = 1
    /\ data[1].timestamp # None
    /\ \E w \in Workers : Writing(w)

\* C8: a 200 response is {status: 'ok', id, result_preview}, id being the id
\* of the entry the request recorded.
C8_OkResponseCarriesId ==
    \A w \in Workers :
        pc[w] = "reply" /\ resp[w].status = 200 =>
            /\ DOMAIN resp[w].body = {"status", "id", "result_preview"}
            /\ resp[w].body.status = "ok"
            /\ resp[w].body.id = recno[w]

\* C9: a text submission with non-blank text is extracted unchanged, its
\* prompt contains the text, and its one recorded entry stores that prompt.
NonBlankText(p) ==
    /\ Has(p, "type")
    /\ p.type[1] = "text"
    /\ ~IsBlank(Get(p, "text", ""))

C9_PromptStored ==
    \A w \in Workers :
        InFlight(w) /\ NonBlankText(payload[w]) =>
            /\ extracted_text[w] = Get(payload[w], "text", "")
            /\ Contains(prompt[w], Get(payload[w], "text", ""))
            /\ Recorded(w) =>
                   /\ nrec[w] = 1
                   /\ HasKey(last_result, "prompt")
                   /\ last_result.prompt = prompt[w]

\* C10: a text submission whose text is empty or only whitespace is extracted
\* as the empty string and gets the 'No text found' prompt with its metadata.
BlankText(p) ==
    /\ Has(p, "type")
    /\ p.type[1] = "text"
    /\ IsBlank(Get(p, "text", ""))

C10_BlankTextGetsFallback ==
    \A w \in Workers :
        InFlight(w) /\ BlankText(payload[w]) =>
            /\ extracted_text[w] = ""
            /\ prompt[w] = FallbackHead \o PyStr(Get(payload[w], "meta", None))
                               \o FallbackTail

\* C11: a submission of a recognized type without the field that type
\* requires ('text' for text, 'image_b64' for image) is rejected with 400
\* before extraction: no call_llm, nothing written to last_result.
MissingField(p) ==
    /\ Has(p, "type")
    /\ \/ p.type[1] = "text" /\ ~Has(p, "text")
       \/ p.type[1] = "image" /\ ~Has(p, "image_b64")

C11_MissingFieldRejected ==
    \A w \in Workers :
        pc[w] # "idle" /\ MissingField(payload[w]) => Rejected(w)

\* C12: without OCR a decodable image is extracted as the empty string, so
\* the fallback prompt is used, and the base64 data is no part of the prompt.
DecodableImage(p) ==
    /\ Has(p, "type")
    /\ p.type[1] = "image"
    /\ Get(p, "image_b64", "") # ""
    /\ Decodes(Get(p, "image_b64", ""))

C12_NoImageDataInPrompt ==
    \A w \in Workers :
        ~HAVE_OCR /\ InFlight(w) /\ DecodableImage(payload[w]) =>
            /\ extracted_text[w] = ""
            /\ StartsWith(prompt[w], FallbackHead)
            /\ ~Contains(prompt[w], Get(payload[w], "image_b64", ""))

\* C13: whichever backend is active, the input handed to it is at most a
\* fixed number of characters (the 2000 of the local echo), however long the
\* submitted text is.
C13_BackendInputBounded ==
    \A w \in Workers : sent[w] # None => Len(sent[w][1]) <= EchoLen

\* C14: no cancellation: a request inside the generate step, abandoned by its
\* client or not, eventually has executed its record step once, released the
\* lock and reached its response; no request waits for the lock forever.
Completed(w) == pc[w] = "reply" /\ lock # w /\ nrec[w] = 1 /\ resp[w].status = 200

LastLog(t) == IF logged[t] = <<>> THEN "" ELSE logged[t][Len(logged[t])]

PostFailed(t) == LastLog(t) \in {"Failed to send text", "Failed to send image"}

ScreenshotFailed(t) == LastLog(t) = "Screenshot failed"

\* C15 as stated: every trigger's capture, once it has ended, has issued
\* exactly one POST.
C15_ExactlyOnePost ==
    \A t \in Captures : cpc[t] = "done" => Len(posted[t]) = 1

\* C15: every trigger starts one capture of its own; a capture issues at most
\* one POST: exactly one unless taking or encoding the screenshot failed, then
\* none; a failed POST is only printed and the capture ends without another.
C15_AtMostOnePost ==
    /\ \A t \in Captures : (cpc[t] # "unborn") = (t <= started)
    /\ \A t, u \in 1..started : trigger[t] = trigger[u] => t = u
    /\ \A t \in Captures :
        /\ Len(posted[t]) <= 1
        /\ cpc[t] = "done" => (Len(posted[t]) = 0) = ScreenshotFailed(t)
        /\ PostFailed(t) => cpc[t] = "done" /\ Len(posted[t]) = 1

C15_Witness ==
    \E t, u \in Captures :
        /\ cpc[t] = "done" /\ PostFailed(t) /\ Len(posted[t]) = 1
        /\ cpc[u] = "done" /\ ScreenshotFailed(u) /\ posted[u] = <<>>

\* the clipboard read succeeded with text that is non-blank after strip()
NonBlankClip(t) == text[t] # None /\ text[t][1] # "" /\ ~IsBlank(text[t][1])

\* C18 as stated: a finished capture has sent text exactly when the clipboard
\* gave non-blank text, and otherwise has taken a screenshot and sent an image.
C18_TextElseImage ==
    \A t \in Captures :
        cpc[t] = "done" =>
            /\ (posted[t] = <<"text">>) = NonBlankClip(t)
            /\ ~NonBlankClip(t) => shots[t] = 1 /\ posted[t] = <<"image">>

\* C18: a finished capture has sent text exactly when the clipboard read
\* succeeded with non-blank text, then without a screenshot; otherwise it has
\* tried one screenshot and has sent the image unless taking or encoding it
\* failed, in which case it has sent nothing; it never sends both.
C18_TextElseImageIfTaken ==
    \A t \in Captures :
        /\ posted[t] \in {<<>>, <<"text">>, <<"image">>}
        /\ cpc[t] = "done" =>
            /\ (posted[t] = <<"text">>) = NonBlankClip(t)
            /\ NonBlankClip(t) => shots[t] = 0
            /\ ~NonBlankClip(t) =>
                /\ shots[t] = 1
                /\ (posted[t] = <<"image">>) = ~ScreenshotFailed(t)
                /\ ScreenshotFailed(t) => posted[t] = <<>>

C18_Witness ==
    \E t, u, v \in Captures :
        /\ cpc[t] = "done" /\ text[t] = Some(" \n") /\ posted[t] = <<"image">>
        /\ cpc[u] = "done" /\ text[u] = None /\ ScreenshotFailed(u)
        /\ cpc[v] = "done" /\ text[v] = Some("hello") /\ posted[v] = <<"text">>

\* C20: a keyboard event starts a capture thread exactly when it is a press
\* after which all three hotkey keys are in current_keys (so also a repeated or
\* unrelated press while they are held); a release starts none, and neither
\* does a press while a hotkey key is missing.
C20_StartsIffAllHeld ==
    [][nevents' # nevents =>
          /\ started' \in {started, started + 1}
          /\ (started' = started + 1) =
                (last_event'[1] = "press" /\ HOTKEY \subseteq current_keys')]_vars

C20_Witness ==
    /\ started >= 2
    /\ last_event = <<"press", "x">>
    /\ trigger[started] = nevents
    /\ trigger[1] < nevents

\* C16: the result_preview of a 200 response is a prefix of the result the
\* request recorded, has at most 400 characters, and is the whole result when
\* that has 400 characters or fewer.
C16_PreviewIsPrefix ==
    \A w \in Workers :
        pc[w] = "reply" /\ resp[w].status = 200 =>
            LET pv == resp[w].body.result_preview
                r == llm_response[w]
            IN /\ by["text"] = rid[w] => last_result.text = r
               /\ Len(pv) <= PreviewLen
               /\ Len(pv) <= Len(r) /\ SubSeq(r, 1, Len(pv)) = pv
               /\ Len(r) <= PreviewLen => pv = r
               /\ Len(r) > PreviewLen => Len(pv) = PreviewLen

C16_Witness ==
    \E w, v \in Workers :
        /\ pc[w] = "reply" /\ resp[w].status = 200
        /\ Len(llm_response[w]) > PreviewLen
        /\ by["text"] = rid[w]
        /\ pc[v] = "reply" /\ resp[v].status = 200
        /\ Len(llm_response[v]) \in 1..PreviewLen

\* the with block of process()
InWith(w) == pc[w] \in {"w_text", "w_raw", "w_meta", "w_timestamp", "release"}

WithStep(w) ==
    WriteText(w) \/ WriteRaw(w) \/ WriteMeta(w) \/ WriteTimestamp(w) \/ Respond(w)

\* a holder of the lock is inside its with block with a step it can take
LockDiscipline ==
    /\ lock = Display => dpc = "copy" /\ ENABLED IndexCopy
    /\ dpc # "copy" => lock # Display
    /\ \A w \in Workers :
        /\ lock = w => InWith(w) /\ ENABLED WithStep(w)
        /\ ~InWith(w) => lock # w

\* C17: index() holds the lock only for the copy and renders outside it,
\* process() holds it only for the field writes; the holder always has a
\* non-blocking next step, and every acquisition by either route is followed
\* by its release.
C17_LockAlwaysReleased ==
    /\ []LockDiscipline
    /\ \A h \in Workers \cup {Display} : (lock = h) ~> (lock = Free)

C17_Witness ==
    /\ lock = Display
    /\ \E w, v \in Workers : pc[w] = "acquire" /\ InWith(v) = FALSE /\ pc[v] = "acquire"
                              /\ w # v

\* no request is between entering the with block and leaving it
NoneRecording == \A w \in Workers : ~InWith(w)

\* C19: recording order is lock-acquisition order: while no request is inside
\* the with block, every field of last_result, and of a copy index() takes
\* then, is that of the request that acquired the lock last, even when that
\* request arrived first.
C19_LastAcquirerWins ==
    NoneRecording /\ nrecorded > 0 =>
        /\ \A f \in Fields : by[f] = last_acq
        /\ dpc = "render" /\ data_hist[1].n = nrecorded =>
              /\ data[1] = last_result
              /\ \A f \in Fields : data_hist[1].by[f] = last_acq

C19_Witness ==
    /\ \A w \in Workers : pc[w] \in {"idle", "reply"}
    /\ nreq = 2
    /\ nrecorded = 2
    /\ last_acq = 1
    /\ by["text"] = 1
    /\ dpc = "render"
    /\ data_hist[1].n = 2
    /\ data_hist[1].by["timestamp"] = 1

====
